---- MODULE Spec2Model ----
(***************************************************************************)
(* ku-polls: the polls application's request handlers (polls/views.py)     *)
(* over its Question / Choice / Vote tables (polls/models.py).             *)
(*                                                                         *)
(* The clock is a natural number; a question's window is (pub_date,        *)
(* end_date) with end_date = None when unset.  The Vote table is a         *)
(* sequence of rows, the row's primary key being its index.  A vote        *)
(* submission is two database round trips (the lookup of the user's        *)
(* existing vote, then the UPDATE or INSERT); under Spec other requests    *)
(* may run between the two, under SeqSpec submissions do not overlap.      *)
(***************************************************************************)
EXTENDS Integers, Sequences, FiniteSets, TLC

VARIABLES now, questions, choices, votes, inflight, response

vars == <<now, questions, choices, votes, inflight, response>>

\* ---------------------------------------------------------------- bounds
\* The clock runs over 0..MaxTime.
MaxTime == 2
\* The Vote table holds at most MaxVotes rows.
MaxVotes == 2

\* ------------------------------------------------------------- constants
\* end_date = None: the field's null default.
None == -1
\* request.POST has no 'choice' key.
NoField == 0
\* The index page's slice [:5].
PageSize == 5

Anonymous == "anonymous"
Users == {"u1", "u2"}
Requesters == Users \cup {Anonymous}

\* Primary keys a request may name; the stored rows are a subset.
QuestionPks == {1, 2}
RequestPks == QuestionPks \cup {3}
ChoicePks == {1, 2, 3, 4}
PostChoices == ChoicePks \cup {5, NoField}
Workers == {1, 2}

Times == 0..MaxTime
EndDates == Times \cup {None}

\* ------------------------------------------------------ lifecycle policy
\* can_vote with the end of the window excluded.
can_vote_ExclusiveEnd(q, t) ==
    IF q.end_date = None
    THEN q.pub_date <= t
    ELSE q.pub_date <= t /\ t < q.end_date

\* Question.can_vote with the clock reading t.
can_vote(q, t) ==
    IF q.end_date = None
    THEN q.pub_date <= t
    ELSE q.pub_date <= t /\ t <= q.end_date

\* Question.is_published with the clock reading t.
is_published(q, t) == q.pub_date <= t

\* ---------------------------------------------------------------- tables
\* question.choice_set.all()
choice_set(pk) == {c \in DOMAIN choices : choices[c] = pk}

\* Vote.objects.filter(user=user, choice__in=question.choice_set.all()):
\* the primary keys of the matching rows.
VotesOf(u, pk) ==
    {i \in DOMAIN votes : votes[i].user = u /\ votes[i].choice \in choice_set(pk)}

\* Choice.votes
Choice_votes(c) == Cardinality({i \in DOMAIN votes : votes[i].choice = c})

\* ------------------------------------------------------------- responses
NoResponse ==
    [handler |-> "none", user |-> Anonymous, pk |-> 0, choice |-> NoField,
     outcome |-> "none", message |-> "", data |-> <<>>]

Respond(h, u, pk, c, o, m, d) ==
    [handler |-> h, user |-> u, pk |-> pk, choice |-> c,
     outcome |-> o, message |-> m, data |-> d]

Idle == [pc |-> "idle", user |-> Anonymous, pk |-> 0, choice |-> NoField, vote |-> 0]

\* ------------------------------------------------------------ index page
\* The index query without its pub_date filter.
Published_Unfiltered(t) == DOMAIN questions

\* Question.objects.filter(pub_date__lte=timezone.localtime())
Published(t) == {pk \in DOMAIN questions : questions[pk].pub_date <= t}

\* .order_by('-pub_date'): every ordering of the rows S by descending
\* pub_date.  The model declares no further ordering, so rows with equal
\* pub_date come in whatever order the database returns them.
RECURSIVE order_by_pub_date_desc(_)
order_by_pub_date_desc(S) ==
    IF S = {}
    THEN {<<>>}
    ELSE UNION {{<<pk>> \o s : s \in order_by_pub_date_desc(S \ {pk})} :
                pk \in {p \in S : \A r \in S :
                            questions[r].pub_date <= questions[p].pub_date}}

\* The slice [:n] of a result list.
Slice(s, n) == SubSeq(s, 1, IF Len(s) < n THEN Len(s) ELSE n)

\* IndexView.get_queryset: the result lists the query may return.
get_queryset ==
    {Slice(s, PageSize) : s \in order_by_pub_date_desc(Published(now))}

\* IndexView.get: anonymous and logged-in requesters get the same list.
IndexView_get(u) ==
    \E listing \in get_queryset :
        /\ response' = Respond("index", u, 0, NoField, "render_index", "", listing)
        /\ UNCHANGED <<now, questions, choices, votes, inflight>>

\* ----------------------------------------------------------- detail page
\* The outcome of DetailView.get for requester u and question pk.
DetailOutcome(u, pk) ==
    IF u = Anonymous THEN "redirect_login"
    ELSE IF pk \notin DOMAIN questions THEN "redirect_index"
    ELSE IF can_vote(questions[pk], now)
         THEN IF Cardinality(VotesOf(u, pk)) > 1
              THEN "error_500"      \* Vote.objects.get: MultipleObjectsReturned
              ELSE "render_detail"
    ELSE IF is_published(questions[pk], now) THEN "redirect_results"
    ELSE "redirect_index"

\* The flashed message that goes with the outcome.
DetailMessage(o) ==
    IF o = "redirect_index" THEN "Access to question denied."
    ELSE IF o = "redirect_results" THEN "Voting period is closed for this question."
    ELSE ""

\* The 'check' value of the rendered page: the requester's current choice.
DetailCheck(u, pk) ==
    IF DetailOutcome(u, pk) # "render_detail" THEN <<>>
    ELSE IF VotesOf(u, pk) = {} THEN <<NoField>>
    ELSE <<votes[CHOOSE i \in VotesOf(u, pk) : TRUE].choice>>

DetailView_get(u, pk) ==
    /\ response' = Respond("detail", u, pk, NoField, DetailOutcome(u, pk),
                           DetailMessage(DetailOutcome(u, pk)), DetailCheck(u, pk))
    /\ UNCHANGED <<now, questions, choices, votes, inflight>>

\* ---------------------------------------------------------- results page
\* The results page gated by can_vote, as the handler's docstring has it.
ResultsOutcome_WhileOpen(pk) ==
    IF pk \notin DOMAIN questions THEN "redirect_index"
    ELSE IF can_vote(questions[pk], now) THEN "render_results"
    ELSE "redirect_index"

\* The outcome of ResultsView.get for question pk, whoever asks.
ResultsOutcome(pk) ==
    IF pk \notin DOMAIN questions THEN "redirect_index"
    ELSE IF is_published(questions[pk], now) THEN "render_results"
    ELSE "redirect_index"

ResultsMessage(o) ==
    IF o = "redirect_index" THEN "Access to question denied." ELSE ""

ResultsView_get(u, pk) ==
    /\ response' = Respond("results", u, pk, NoField, ResultsOutcome(pk),
                           ResultsMessage(ResultsOutcome(pk)), <<>>)
    /\ UNCHANGED <<now, questions, choices, votes, inflight>>

\* ------------------------------------------------------- vote submission
\* vote() that never finds the requester's existing vote.
VoteOutcome_AlwaysCreate(u, pk, c) ==
    IF u = Anonymous THEN "redirect_login"
    ELSE IF pk \notin DOMAIN questions THEN "not_found_404"
    ELSE IF c = NoField \/ c \notin choice_set(pk) THEN "render_detail_error"
    ELSE "create"

\* vote() without @login_required.
VoteOutcome_NoLogin(u, pk, c) ==
    IF pk \notin DOMAIN questions THEN "not_found_404"
    ELSE IF c = NoField \/ c \notin choice_set(pk) THEN "render_detail_error"
    ELSE IF Cardinality(VotesOf(u, pk)) > 1 THEN "error_500"
    ELSE IF VotesOf(u, pk) = {} THEN "create"
    ELSE "save"

\* vote() that looks the choice up among all choices (Choice.objects.get)
\* instead of among the question's own.
VoteOutcome_AnyChoice(u, pk, c) ==
    IF u = Anonymous THEN "redirect_login"
    ELSE IF pk \notin DOMAIN questions THEN "not_found_404"
    ELSE IF c = NoField \/ c \notin DOMAIN choices THEN "render_detail_error"
    ELSE IF Cardinality(VotesOf(u, pk)) > 1 THEN "error_500"
    ELSE IF VotesOf(u, pk) = {} THEN "create"
    ELSE "save"

\* What vote() does before it writes, for requester u, question pk and
\* POST field c: the decorator, the question lookup, the choice lookup and
\* the lookup of the requester's existing vote.
VoteOutcome(u, pk, c) ==
    IF u = Anonymous THEN "redirect_login"                 \* @login_required
    ELSE IF pk \notin DOMAIN questions THEN "not_found_404" \* get_object_or_404
    ELSE IF c = NoField \/ c \notin choice_set(pk)
         THEN "render_detail_error"     \* KeyError, Choice.DoesNotExist
    ELSE IF Cardinality(VotesOf(u, pk)) > 1
         THEN "error_500"               \* MultipleObjectsReturned
    ELSE IF VotesOf(u, pk) = {} THEN "create"
    ELSE "save"

VoteMessage(o) ==
    IF o = "render_detail_error" THEN "You didn't select a choice." ELSE ""

\* The rows the table may hold once every INSERT in flight has run.
PendingRows ==
    Len(votes) + Cardinality({w \in Workers : inflight[w].pc = "create"})

\* vote(), up to and including Vote.objects.get: worker w takes the request
\* (the workers are interchangeable, so the first idle one does).  A request
\* that ends early is answered at once; otherwise the worker holds the row
\* it found (or none) until it writes.
VoteBegin(w, u, pk, c) ==
    /\ inflight[w].pc = "idle"
    /\ \A v \in Workers : v < w => inflight[v].pc # "idle"
    /\ LET o == VoteOutcome(u, pk, c) IN
       IF o \in {"create", "save"}
       THEN /\ o = "create" => PendingRows < MaxVotes
            /\ inflight' = [inflight EXCEPT ![w] =
                   [pc |-> o, user |-> u, pk |-> pk, choice |-> c,
                    vote |-> IF o = "save"
                             THEN CHOOSE i \in VotesOf(u, pk) : TRUE ELSE 0]]
            /\ response' = NoResponse
       ELSE /\ inflight' = inflight
            /\ response' = Respond("vote", u, pk, c, o, VoteMessage(o), <<>>)
    /\ UNCHANGED <<now, questions, choices, votes>>

\* A save that repoints every vote of the user
\* (Vote.objects.filter(user=user).update(choice=selected_choice)).
SaveVote_AllOfUser(w) ==
    [i \in DOMAIN votes |->
        IF votes[i].user = inflight[w].user
        THEN [choice |-> inflight[w].choice, user |-> votes[i].user]
        ELSE votes[i]]

\* vote_info.choice = selected_choice; vote_info.save()
SaveVote(w) ==
    [votes EXCEPT ![inflight[w].vote] =
        [choice |-> inflight[w].choice, user |-> votes[inflight[w].vote].user]]

\* Vote.objects.create(choice=selected_choice, user=user).save()
CreateVote(w) ==
    Append(votes, [choice |-> inflight[w].choice, user |-> inflight[w].user])

\* vote(), from the write to the redirect to the results page.
VoteFinish(w) ==
    /\ inflight[w].pc \in {"create", "save"}
    /\ votes' = IF inflight[w].pc = "save" THEN SaveVote(w) ELSE CreateVote(w)
    /\ inflight' = [inflight EXCEPT ![w] = Idle]
    /\ response' = Respond("vote", inflight[w].user, inflight[w].pk,
                           inflight[w].choice, "redirect_results", "", <<>>)
    /\ UNCHANGED <<now, questions, choices>>

\* ----------------------------------------------------------------- clock
\* timezone.localtime() advances; the last response belongs to the past.
Tick ==
    /\ now < MaxTime
    /\ now' = now + 1
    /\ response' = NoResponse
    /\ UNCHANGED <<questions, choices, votes, inflight>>

\* --------------------------------------------------------- specification
\* The polls under Spec and SeqSpec: question 1 opens and closes while the
\* clock runs (not yet published at 0, open at 1, closed from 2 on),
\* question 2 is open from the start and has no end_date.
PollWindows ==
    (1 :> [pub_date |-> 1, end_date |-> 1]) @@ (2 :> [pub_date |-> 0, end_date |-> None])

\* Two questions with two choices each, no votes yet.
Init ==
    /\ now = 0
    /\ questions = PollWindows
    /\ choices = (1 :> 1) @@ (2 :> 1) @@ (3 :> 2) @@ (4 :> 2)
    /\ votes = <<>>
    /\ inflight = [w \in Workers |-> Idle]
    /\ response = NoResponse

AllIdle == \A w \in Workers : inflight[w].pc = "idle"

Next ==
    \/ Tick
    \/ \E u \in Requesters : IndexView_get(u)
    \/ \E u \in Requesters, pk \in RequestPks : DetailView_get(u, pk)
    \/ \E u \in Requesters, pk \in RequestPks : ResultsView_get(u, pk)
    \/ \E w \in Workers, u \in Requesters, pk \in RequestPks, c \in PostChoices :
           VoteBegin(w, u, pk, c)
    \/ \E w \in Workers : VoteFinish(w)

Spec == Init /\ [][Next]_vars

\* Submissions that do not overlap: a request is taken only when no other
\* submission is between its lookup and its write.
SeqVoteBegin(w, u, pk, c) == AllIdle /\ VoteBegin(w, u, pk, c)

SeqNext ==
    \/ Tick
    \/ \E u \in Requesters : IndexView_get(u)
    \/ \E u \in Requesters, pk \in RequestPks : DetailView_get(u, pk)
    \/ \E u \in Requesters, pk \in RequestPks : ResultsView_get(u, pk)
    \/ \E w \in Workers, u \in Requesters, pk \in RequestPks, c \in PostChoices :
           SeqVoteBegin(w, u, pk, c)
    \/ \E w \in Workers : VoteFinish(w)

SeqSpec == Init /\ [][SeqNext]_vars

\* The lifecycle of one question under every window the clock can meet:
\* any pub_date, end_date unset or set (before pub_date too), no votes.
LifecycleInit ==
    /\ now = 0
    /\ questions \in [{1} -> [pub_date : Times, end_date : EndDates]]
    /\ choices = (1 :> 1) @@ (2 :> 1)
    /\ votes = <<>>
    /\ inflight = [w \in Workers |-> Idle]
    /\ response = NoResponse

LifecycleNext ==
    \/ Tick
    \/ \E u \in Requesters, pk \in RequestPks : DetailView_get(u, pk)
    \/ \E u \in Requesters, pk \in RequestPks : ResultsView_get(u, pk)

LifecycleSpec == LifecycleInit /\ [][LifecycleNext]_vars

\* The index page over one question more than a page holds, each with any
\* of three pub_dates (so some are equal, and some lie in the future until
\* the clock reaches them), asked for by an anonymous and by a logged-in
\* requester: the two branches of IndexView.get.
IndexPks == 1..(PageSize + 1)
IndexDates == {0, 1, 2}
IndexRequesters == {Anonymous, "u1"}

IndexInit ==
    /\ now = 0
    /\ questions \in [IndexPks -> [pub_date : IndexDates, end_date : {None}]]
    /\ choices = <<>>
    /\ votes = <<>>
    /\ inflight = [w \in Workers |-> Idle]
    /\ response = NoResponse

IndexNext ==
    \/ Tick
    \/ \E u \in IndexRequesters : IndexView_get(u)

IndexSpec == IndexInit /\ [][IndexNext]_vars

\* ================================================================ claims
\* The rows of table tbl that are user u's votes on question pk.
RowsOf(tbl, u, pk) ==
    {i \in DOMAIN tbl : tbl[i].user = u /\ choices[tbl[i].choice] = pk}

\* Worker w writes and answers in this step.
Finishing(w) == inflight[w].pc # "idle" /\ inflight'[w].pc = "idle"

\* Worker w takes a submission to the write stage in this step.
Accepting(w) == inflight[w].pc = "idle" /\ inflight'[w].pc # "idle"

\* No (user, question) pair has two Vote rows.
AtMostOneVote ==
    \A u \in Users, pk \in DOMAIN questions : Cardinality(RowsOf(votes, u, pk)) <= 1

\* A completed submission leaves exactly one row for its (user, question),
\* holding the choice just selected; when the user had a vote already, the
\* table has as many rows as before.
LastChoiceWins ==
    \A w \in Workers :
        Finishing(w) =>
            /\ \E i \in DOMAIN votes' :
                   /\ RowsOf(votes', inflight[w].user, inflight[w].pk) = {i}
                   /\ votes'[i].choice = inflight[w].choice
            /\ RowsOf(votes, inflight[w].user, inflight[w].pk) # {}
                   => Len(votes') = Len(votes)

\* C1: when vote submissions do not overlap, every (user, question) pair has
\* at most one Vote row at all times, and a submission by a user who has
\* voted on the question overwrites that vote: the one row holds the latest
\* choice and the table does not grow.
C1_OneVoteLastChoiceWins == []AtMostOneVote /\ [][LastChoiceWins]_vars

\* C1 witness: a user with a vote on a question has submitted another choice
\* for it, and the row found is about to be overwritten.
C1_Witness ==
    \E w \in Workers :
        /\ inflight[w].pc = "save"
        /\ votes[inflight[w].vote].user = inflight[w].user
        /\ votes[inflight[w].vote].choice # inflight[w].choice
        /\ choices[votes[inflight[w].vote].choice] = inflight[w].pk

\* C2: under every interleaving of concurrent submissions by one user on
\* one question, no reachable state holds two Vote rows for that pair.
C2_NoDuplicateUnderConcurrency ==
    \A u \in Users, pk \in DOMAIN questions :
        \A i, j \in RowsOf(votes, u, pk) : i = j

\* C3: a submission reaches the write only if can_vote holds for its
\* question when it is submitted, and the Vote table changes only by such a
\* write; so a submission for a question not yet published or past its
\* end_date leaves the table as it was.
C3_VoteOnlyWhileOpen ==
    [][/\ \A w \in Workers :
             Accepting(w) => can_vote(questions[inflight'[w].pk], now)
       /\ votes' # votes => \E w \in Workers : Finishing(w)]_vars

\* An anonymous submission is answered with the redirect to login, and no
\* worker ever holds, and no row ever records, an anonymous requester.
AnonymousTurnedAway ==
    /\ (response.handler = "vote" /\ response.user = Anonymous)
           => response.outcome = "redirect_login"
    /\ \A w \in Workers : inflight[w].pc # "idle" => inflight[w].user \in Users
    /\ \A i \in DOMAIN votes : votes[i].user \in Users

\* The step that answers an anonymous submission changes no Vote row and
\* starts no write.
AnonymousWritesNothing ==
    (response'.handler = "vote" /\ response'.user = Anonymous)
        => votes' = votes /\ inflight' = inflight

\* C4: an anonymous vote submission, for every question and every choice,
\* is redirected to login and neither creates nor changes a Vote row; only
\* an authenticated requester's submission reaches the voting logic.
C4_AnonymousNeverVotes == []AnonymousTurnedAway /\ [][AnonymousWritesNothing]_vars

\* C4 witness: an anonymous requester has submitted a choice of an existing
\* question, one an authenticated requester could have voted for.
C4_Witness ==
    /\ response.handler = "vote"
    /\ response.user = Anonymous
    /\ response.outcome = "redirect_login"
    /\ response.pk \in DOMAIN questions
    /\ response.choice \in DOMAIN choices
    /\ choices[response.choice] = response.pk
    /\ votes # <<>>

\* The choice field c does not name a choice of question pk.
BadChoice(pk, c) ==
    \/ c = NoField
    \/ c \notin DOMAIN choices
    \/ c \in DOMAIN choices /\ choices[c] # pk

\* An authenticated submission for an existing question whose choice field
\* is missing, unknown or another question's gets the form back with the
\* error message.
BadChoiceRejected ==
    (/\ response.handler = "vote"
     /\ response.user \in Users
     /\ response.pk \in DOMAIN questions
     /\ BadChoice(response.pk, response.choice))
        => /\ response.outcome = "render_detail_error"
           /\ response.message = "You didn't select a choice."

\* The step that answers such a submission leaves every Vote row, and
\* every write in flight, as it was.
BadChoiceWritesNothing ==
    (/\ response'.handler = "vote"
     /\ response'.user \in Users
     /\ response'.pk \in DOMAIN questions
     /\ BadChoice(response'.pk, response'.choice))
        => votes' = votes /\ inflight' = inflight

\* C5: a submission whose choice field is missing, names no choice, or
\* names a choice of another question is rejected: the form is shown again
\* with an error and the Vote rows are exactly as before.
C5_BadChoiceRejected == []BadChoiceRejected /\ [][BadChoiceWritesNothing]_vars

\* C5 witness: a user who has a vote on a question submitted another
\* question's choice for it and got the form back.
C5_Witness ==
    /\ response.handler = "vote"
    /\ response.outcome = "render_detail_error"
    /\ response.user \in Users
    /\ response.pk \in DOMAIN questions
    /\ response.choice \in DOMAIN choices
    /\ choices[response.choice] # response.pk
    /\ RowsOf(votes, response.user, response.pk) # {}

Open(pk) ==
    /\ questions[pk].pub_date <= now
    /\ questions[pk].end_date = None \/ now <= questions[pk].end_date

\* C7: for an authenticated requester and an existing question the detail
\* handler renders the voting page exactly when can_vote holds, redirects to
\* the results page exactly when voting is closed but the question is
\* published, and redirects to the index exactly when it is not published;
\* it has no other outcome.
C7_DetailFollowsLifecycle ==
    (/\ response.handler = "detail"
     /\ response.user \in Users
     /\ response.pk \in DOMAIN questions)
        => /\ response.outcome = "render_detail" <=> Open(response.pk)
           /\ response.outcome = "redirect_results"
                  <=> ~Open(response.pk) /\ questions[response.pk].pub_date <= now
           /\ response.outcome = "redirect_index"
                  <=> questions[response.pk].pub_date > now

\* The answer to a request for a question's results: rendered exactly when
\* the question is published, a redirect to the index otherwise.
ResultsFollowPublication ==
    (response.handler = "results" /\ response.pk \in DOMAIN questions)
        => /\ response.outcome = "render_results"
                  <=> questions[response.pk].pub_date <= now
           /\ response.outcome = "redirect_index"
                  <=> questions[response.pk].pub_date > now

\* Results that can be seen now can be seen after any step of the clock.
ResultsStayViewable ==
    \A pk \in DOMAIN questions :
        ResultsOutcome(pk) = "render_results" => ResultsOutcome(pk)' = "render_results"

PublishedNow == {pk \in DOMAIN questions : questions[pk].pub_date <= now}

\* C9: the index lists only questions with pub_date <= now, none twice,
\* most recent first; it lists all of them when at most 5 are published and
\* 5 of them otherwise, and then no question left out is more recent than
\* one listed.
C9_IndexLatestFive ==
    response.handler = "index" =>
        LET l == response.data IN
        /\ \A i \in DOMAIN l : l[i] \in PublishedNow
        /\ \A i, j \in DOMAIN l : i < j =>
               /\ l[i] # l[j]
               /\ questions[l[i]].pub_date >= questions[l[j]].pub_date
        /\ Len(l) = IF Cardinality(PublishedNow) > 5 THEN 5
                    ELSE Cardinality(PublishedNow)
        /\ \A pk \in PublishedNow :
               (\A i \in DOMAIN l : l[i] # pk) =>
                   \A i \in DOMAIN l : questions[pk].pub_date <= questions[l[i]].pub_date

\* C9 witness: the index was asked for with more than 5 questions
\* published, on more than one date.
C9_Witness ==
    /\ response.handler = "index"
    /\ Cardinality(PublishedNow) > 5
    /\ Len(response.data) = 5
    /\ questions[response.data[1]].pub_date > questions[response.data[5]].pub_date

\* C10: a request that names a question that does not exist is answered, by
\* the detail, the results and the vote handler alike, with a redirect to
\* the index and a message.  Stated for logged-in requesters: an anonymous
\* one is sent to login by the detail and the vote handler before the
\* question is looked up.
C10_MissingQuestionRedirects ==
    (/\ response.handler \in {"detail", "results", "vote"}
     /\ response.user \in Users
     /\ response.pk \notin DOMAIN questions)
        => response.outcome = "redirect_index" /\ response.message # ""

\* The rows of the Vote table that this step creates or changes.
ChangedRows ==
    {i \in DOMAIN votes' : i \notin DOMAIN votes \/ votes'[i] # votes[i]}

\* A step deletes no row and creates or changes at most one; the one a
\* completed submission by u on question pk with choice c touches is u's
\* vote on pk, before (when it existed) and after, and it then holds c.
OneRowUpserted ==
    /\ Len(votes') >= Len(votes)
    /\ Cardinality(ChangedRows) <= 1
    /\ \A w \in Workers :
           Finishing(w) =>
               /\ ChangedRows # {} \/ votes' = votes
               /\ \A i \in ChangedRows :
                      /\ votes'[i].user = inflight[w].user
                      /\ votes'[i].choice = inflight[w].choice
                      /\ choices[votes'[i].choice] = inflight[w].pk
                      /\ i \in DOMAIN votes =>
                             /\ votes[i].user = inflight[w].user
                             /\ choices[votes[i].choice] = inflight[w].pk

\* C11: a successful submission by user u on question q with choice c
\* changes only u's vote on q (creating it or repointing it to c); the votes
\* of every other user and u's votes on every other question keep their
\* choice, so a submission changes at most one Vote row.
C11_VoteChangesOneRow == [][OneRowUpserted]_vars

\* C11 witness: a submission has just been written while the table also
\* holds another row (another user's, or the same user's on another
\* question) with a different choice.
C11_Witness ==
    /\ response.handler = "vote"
    /\ response.outcome = "redirect_results"
    /\ Len(votes) = 2
    /\ \E i, j \in DOMAIN votes :
           /\ i # j
           /\ votes[i].user = response.user
           /\ votes[i].choice = response.choice
           /\ (votes[j].user # response.user \/ choices[votes[j].choice] # response.pk)
           /\ votes[j].choice # response.choice

====
